---- MODULE Spec2Model ----
(***************************************************************************)
(* Model of scripts/rename_icons.py: the Material Design icon renamer and  *)
(* icons.slint generator.  File names are sequences of one-character       *)
(* strings, so that the regular expression, pathlib's suffix/stem and      *)
(* Python's string ordering are computed character by character.           *)
(***************************************************************************)
EXTENDS Integers, Sequences, FiniteSets, TLC

(***************************************************************************)
(* Characters and text helpers                                             *)
(***************************************************************************)
NL == "\n"

\* Code-point order of the characters that occur in file names (ASCII).
CharOrder ==
    <<"\n", "-", ".", "0", "1", "2", "3", "4", "5", "6", "7", "8", "9",
      "A", "B", "C", "D", "E", "F", "G", "H", "I", "J", "K", "L", "M", "N",
      "O", "P", "Q", "R", "S", "T", "U", "V", "W", "X", "Y", "Z", "_", "a",
      "b", "c", "d", "e", "f", "g", "h", "i", "j", "k", "l", "m", "n", "o",
      "p", "q", "r", "s", "t", "u", "v", "w", "x", "y", "z">>

Ord(c) == CHOOSE i \in 1..Len(CharOrder) : CharOrder[i] = c

Digit == {"0", "1", "2", "3", "4", "5", "6", "7", "8", "9"}

\* The character class [A-Fa-f0-9].
HexDigit == Digit \cup {"A", "B", "C", "D", "E", "F",
                        "a", "b", "c", "d", "e", "f"}

\* What "." matches in a Python regular expression without re.DOTALL.
AnyButNewline == {CharOrder[i] : i \in 1..Len(CharOrder)} \ {NL}

(***************************************************************************)
(* ICON_PATTERN, as a sequence of quantified character classes.  max = -1  *)
(* stands for an unbounded repetition.                                     *)
(***************************************************************************)
Lit(c) == [cls |-> {c}, min |-> 1, max |-> 1]

Plus(C) == [cls |-> C, min |-> 1, max |-> -1]

Opt(c) == [cls |-> {c}, min |-> 0, max |-> 1]

Rep(C, n) == [cls |-> C, min |-> n, max |-> n]

LitSeq(s) == [i \in 1..Len(s) |-> Lit(s[i])]

\* Everything of ICON_PATTERN after the group (.+?), up to but excluding $.
ICON_PATTERN ==
    LitSeq(<<"_">>) \o <<Plus(Digit)>> \o LitSeq(<<"d", "p", "_">>)
    \o <<Rep(HexDigit, 6)>> \o LitSeq(<<"_", "F", "I", "L", "L">>)
    \o <<Plus(Digit)>> \o LitSeq(<<"_", "w", "g", "h", "t">>)
    \o <<Plus(Digit)>> \o LitSeq(<<"_", "G", "R", "A", "D">>)
    \o <<Opt("-"), Plus(Digit)>> \o LitSeq(<<"_", "o", "p", "s", "z">>)
    \o <<Plus(Digit)>> \o LitSeq(<<".", "s", "v", "g">>)

\* Python's $ (no re.MULTILINE): at the end of the string, or just before a
\* newline that is the last character of the string.
AtDollar(s, i) == \/ i = Len(s) + 1
                  \/ i = Len(s) /\ s[i] = NL

AllIn(s, i, n, C) == \A j \in i..(i + n - 1) : s[j] \in C

\* Do the elements k.. of ICON_PATTERN, then $, match s from position i on?
RECURSIVE TailMatches(_, _, _)
TailMatches(s, k, i) ==
    IF k > Len(ICON_PATTERN) THEN AtDollar(s, i)
    ELSE LET e == ICON_PATTERN[k]
             room == Len(s) - i + 1
             hi == IF e.max = -1 \/ e.max > room THEN room ELSE e.max
         IN \E n \in e.min..hi :
               /\ AllIn(s, i, n, e.cls)
               /\ TailMatches(s, k + 1, i + n)

\* The lengths the lazy group (.+?) can take in a match anchored at ^.
GroupLengths(s) ==
    {n \in 1..Len(s) : AllIn(s, 1, n, AnyButNewline) /\ TailMatches(s, 1, n + 1)}

Min(S) == CHOOSE x \in S : \A y \in S : x <= y

None == <<>>

\* get_clean_name: group(1) followed by ".svg", or None.  The lazy group
\* takes the shortest length for which the rest of the pattern matches.
get_clean_name(filename) ==
    IF GroupLengths(filename) = {} THEN None
    ELSE SubSeq(filename, 1, Min(GroupLengths(filename))) \o <<".", "s", "v", "g">>

(***************************************************************************)
(* pathlib.PurePath.suffix and .stem                                       *)
(***************************************************************************)
\* 1-based position of the last "." of the name, 0 if there is none
\* (str.rfind + 1).
LastDot(name) ==
    LET dots == {i \in 1..Len(name) : name[i] = "."}
    IN IF dots = {} THEN 0 ELSE CHOOSE i \in dots : \A j \in dots : j <= i

HasSuffix(name) == 1 < LastDot(name) /\ LastDot(name) < Len(name)

suffix(name) ==
    IF HasSuffix(name) THEN SubSeq(name, LastDot(name), Len(name)) ELSE <<>>

stem(name) ==
    IF HasSuffix(name) THEN SubSeq(name, 1, LastDot(name) - 1) ELSE name

(***************************************************************************)
(* Python string ordering, sorted() and str.join                            *)
(***************************************************************************)
\* a < b for Python strings: lexicographic by code point.
StrLess(a, b) ==
    \E k \in 1..(Len(a) + 1) :
        /\ k <= Len(b)
        /\ \A j \in 1..(k - 1) : a[j] = b[j]
        /\ \/ k = Len(a) + 1
           \/ Ord(a[k]) < Ord(b[k])

Least(S) == CHOOSE x \in S : \A y \in S \ {x} : StrLess(x, y)

\* sorted(S) for a collection of distinct strings.
RECURSIVE sorted(_)
sorted(S) == IF S = {} THEN <<>>
             ELSE <<Least(S)>> \o sorted(S \ {Least(S)})

\* sep.join(lines)
RECURSIVE join(_, _)
join(sep, lines) ==
    IF lines = <<>> THEN <<>>
    ELSE IF Len(lines) = 1 THEN lines[1]
    ELSE lines[1] \o sep \o join(sep, Tail(lines))

(***************************************************************************)
(* The icons directory.  A directory is a function from entry names to     *)
(* [kind, id]: kind "file" is anything is_file() accepts (a regular file   *)
(* or a symlink to one), "dir" a directory, "broken" a dangling symlink;   *)
(* id is the identity of the entry (its inode), which a rename keeps.      *)
(***************************************************************************)
SfxA ==
    <<"_", "2", "4", "d", "p", "_", "E", "3", "E", "3", "E", "3", "_", "F",
      "I", "L", "L", "0", "_", "w", "g", "h", "t", "4", "0", "0", "_", "G",
      "R", "A", "D", "0", "_", "o", "p", "s", "z", "2", "4">>

SfxB ==
    <<"_", "4", "8", "d", "p", "_", "e", "8", "e", "a", "e", "d", "_", "F",
      "I", "L", "L", "1", "_", "w", "g", "h", "t", "3", "0", "0", "_", "G",
      "R", "A", "D", "-", "2", "5", "_", "o", "p", "s", "z", "4", "8">>

SfxBadHex ==
    <<"_", "2", "4", "d", "p", "_", "E", "3", "E", "3", "E", "G", "_", "F",
      "I", "L", "L", "0", "_", "w", "g", "h", "t", "4", "0", "0", "_", "G",
      "R", "A", "D", "0", "_", "o", "p", "s", "z", "2", "4">>

DotSvg == <<".", "s", "v", "g">>

DotPng == <<".", "p", "n", "g">>

ICONS_SLINT == <<"i", "c", "o", "n", "s", ".", "s", "l", "i", "n", "t">>

\* File names the initial directory is drawn from.
NameA == <<"a">> \o SfxA \o DotSvg

NameB == <<"a">> \o SfxB \o DotSvg

NameAA == <<"a">> \o SfxA \o SfxA \o DotSvg

NameClean == <<"a">> \o DotSvg

NameZ == <<"Z">> \o SfxB \o DotSvg

NameNoBase == SfxA \o DotSvg

NamePng == <<"a">> \o SfxA \o DotPng

NameTrailingNL == <<"a">> \o SfxA \o DotSvg \o <<NL>>

NameNLBase == <<NL>> \o SfxA \o DotSvg

NameBadHex == <<"a">> \o SfxBadHex \o DotSvg

FileNames == {NameA, NameB, NameAA, NameClean, NameZ, NameNoBase, NamePng,
              NameTrailingNL, NameNLBase, NameBadHex, ICONS_SLINT}

\* The entries an initial directory may hold.  icons.slint, when present,
\* is a regular file.
Universe ==
    [name : FileNames, kind : {"file"}]
    \cup [name : {NameA, NameClean}, kind : {"dir", "broken"}]

MaxFiles == 3

RECURSIVE EntrySets(_)
EntrySets(n) ==
    IF n = 0 THEN {{}}
    ELSE LET smaller == EntrySets(n - 1)
         IN smaller \cup
            {S \cup {e} : S \in smaller,
                          e \in Universe}

DistinctNames(S) == \A e1, e2 \in S : e1.name = e2.name => e1 = e2

DirOf(S) ==
    [n \in {e.name : e \in S} |->
        LET e == CHOOSE x \in S : x.name = n
        IN [kind |-> e.kind, id |-> e.name]]

InitialDirs ==
    {DirOf(S) : S \in {T \in EntrySets(MaxFiles) : DistinctNames(T)}}

\* Path.is_file() and Path.exists() follow symlinks.
is_file(d, p) == p \in DOMAIN d /\ d[p].kind = "file"

exists(d, p) == p \in DOMAIN d /\ d[p].kind # "broken"

\* os.rename(src, dst): the entry moves to dst, silently replacing an
\* entry that is already there.
rename(d, src, dst) ==
    [n \in (DOMAIN d \ {src}) \cup {dst} |-> IF n = dst THEN d[src] ELSE d[n]]

(***************************************************************************)
(* rename_icons: one iteration of the for loop, as a function of the       *)
(* directory, the renamed list and the entry that iterdir() yields.        *)
(***************************************************************************)
LoopBody(d, r, file) ==
    IF ~is_file(d, file) \/ suffix(file) # DotSvg
    THEN [dir |-> d, renamed |-> r]
    ELSE LET clean_name == get_clean_name(file)
         IN IF clean_name = None
            THEN [dir |-> d, renamed |-> r]
            ELSE IF exists(d, clean_name) /\ clean_name # file
            THEN [dir |-> d, renamed |-> r]
            ELSE [dir |-> rename(d, file, clean_name),
                  renamed |-> Append(r, clean_name)]

(***************************************************************************)
(* generate_icons_slint                                                    *)
(***************************************************************************)
\* The header lines; the element "(c)" stands for the one character U+00A9.
H1 ==
    <<"/", "/", " ", "C", "o", "p", "y", "r", "i", "g", "h", "t", " ",
      "(c)", " ", "S", "i", "x", "t", "y", "F", "P", "S", " ", "G", "m",
      "b", "H", " ", "<", "i", "n", "f", "o", "@", "s", "l", "i", "n", "t",
      ".", "d", "e", "v", ">">>

H2 ==
    <<"/", "/", " ", "S", "P", "D", "X", "-", "L", "i", "c", "e", "n", "s",
      "e", "-", "I", "d", "e", "n", "t", "i", "f", "i", "e", "r", ":", " ",
      "M", "I", "T">>

H4 ==
    <<"e", "x", "p", "o", "r", "t", " ", "g", "l", "o", "b", "a", "l", " ",
      "I", "c", "o", "n", "s", " ", "{">>

HeaderLines == <<H1, H2, <<>>, H4>>

FooterLines == <<<<"}">>, <<>>>>

\* f'    out property <image> {name}: @image-url("{name}.svg");'
DeclLine(name) ==
    <<" ", " ", " ", " ", "o", "u", "t", " ", "p", "r", "o", "p", "e", "r",
      "t", "y", " ", "<", "i", "m", "a", "g", "e", ">", " ">>
    \o name
    \o <<":", " ", "@", "i", "m", "a", "g", "e", "-", "u", "r", "l", "(", "\"">>
    \o name
    \o <<".", "s", "v", "g", "\"", ")", ";">>

\* The listing without the is_file()/suffix filter of the comprehension.
svg_files_unfiltered(d) == sorted({stem(f) : f \in DOMAIN d})

svg_files(d) ==
    sorted({stem(f) : f \in {g \in DOMAIN d : is_file(d, g) /\ suffix(g) = DotSvg}})

SlintText(d) ==
    LET names == svg_files(d)
    IN join(<<NL>>, HeaderLines \o [i \in 1..Len(names) |-> DeclLine(names[i])]
                    \o FooterLines)

\* Path.write_text creates icons.slint when it does not exist yet.
WithSlintFile(d) ==
    IF ICONS_SLINT \in DOMAIN d THEN d
    ELSE [n \in DOMAIN d \cup {ICONS_SLINT} |->
            IF n = ICONS_SLINT THEN [kind |-> "file", id |-> ICONS_SLINT]
            ELSE d[n]]

(***************************************************************************)
(* The script as a state machine                                           *)
(***************************************************************************)
VARIABLES
    dir,        \* the icons directory
    slint,      \* the text of icons.slint (<<>> while it was never written)
    pc,         \* position in main: "idle", "renaming", "generate", "done"
    todo,       \* entries of the iterdir() snapshot not yet visited
    renamed,    \* the list rename_icons builds
    calls,      \* the operations main has called in the current run
    startDir,   \* the directory as the current run found it
    rerun,      \* TRUE when a complete run preceded the current one
    filename,   \* argument of a direct call of get_clean_name
    result      \* what that call returned

vars == <<dir, slint, pc, todo, renamed, calls, startDir, rerun, filename, result>>

Init ==
    /\ dir \in InitialDirs
    /\ slint = <<>>
    /\ pc = "idle"
    /\ todo = {}
    /\ renamed = <<>>
    /\ calls = <<>>
    /\ startDir = dir
    /\ rerun = FALSE
    /\ filename = <<>>
    /\ result = None

\* main calls rename_icons, which starts with an empty list and takes the
\* os.listdir() snapshot that iterdir() walks.
StartRenameIcons ==
    /\ pc = "idle"
    /\ pc' = "renaming"
    /\ todo' = DOMAIN dir
    /\ renamed' = <<>>
    /\ calls' = <<"rename_icons">>
    /\ startDir' = dir
    /\ UNCHANGED <<dir, slint, rerun, filename, result>>

\* One iteration of the loop.  The order in which the directory enumerates
\* its entries is arbitrary: any entry of the snapshot not yet visited may
\* come next.
RenameIteration ==
    /\ pc = "renaming"
    /\ \E file \in todo :
          /\ dir' = LoopBody(dir, renamed, file).dir
          /\ renamed' = LoopBody(dir, renamed, file).renamed
          /\ todo' = todo \ {file}
    /\ UNCHANGED <<slint, pc, calls, startDir, rerun, filename, result>>

\* The loop is exhausted and rename_icons returns to main.
ReturnRenamed ==
    /\ pc = "renaming"
    /\ todo = {}
    /\ pc' = "generate"
    /\ UNCHANGED <<dir, slint, todo, renamed, calls, startDir, rerun, filename, result>>

GenerateIconsSlint ==
    /\ pc = "generate"
    /\ slint' = SlintText(dir)
    /\ dir' = WithSlintFile(dir)
    /\ calls' = Append(calls, "generate_icons_slint")
    /\ pc' = "done"
    /\ UNCHANGED <<todo, renamed, startDir, rerun, filename, result>>

\* The script is invoked again on the directory the previous run left.
RunAgain ==
    /\ pc = "done"
    /\ pc' = "idle"
    /\ rerun' = TRUE
    /\ calls' = <<>>
    /\ renamed' = <<>>
    /\ startDir' = dir
    /\ UNCHANGED <<dir, slint, todo, filename, result>>

Next ==
    \/ StartRenameIcons
    \/ RenameIteration
    \/ ReturnRenamed
    \/ GenerateIconsSlint
    \/ RunAgain

Spec == Init /\ [][Next]_vars

(***************************************************************************)
(* rename_icons as a whole, for a given enumeration order of the snapshot, *)
(* and main as a function of the directory and that order.                 *)
(***************************************************************************)
RECURSIVE rename_icons(_, _, _)
rename_icons(d, r, order) ==
    IF order = <<>> THEN [dir |-> d, renamed |-> r]
    ELSE LET after == LoopBody(d, r, Head(order))
         IN rename_icons(after.dir, after.renamed, Tail(order))

main(d, order) ==
    LET pass == rename_icons(d, <<>>, order)
    IN [names |-> DOMAIN WithSlintFile(pass.dir), slint |-> SlintText(pass.dir)]

\* The orders in which a directory with entry names S can enumerate them.
Orders(S) ==
    {q \in [1..Cardinality(S) -> S] : \A i, j \in DOMAIN q : q[i] = q[j] => i = j}

(***************************************************************************)
(* get_clean_name called directly on a file name                           *)
(***************************************************************************)
Bases == {<<>>, <<"a">>, <<"Z", "_", "9">>, <<NL>>, <<"a", NL, "b">>, <<".">>,
          <<"a">> \o SfxA, <<"a">> \o SfxB \o DotSvg}

SfxNoDigits ==
    <<"_", "d", "p", "_", "E", "3", "E", "3", "E", "3", "_", "F", "I", "L",
      "L", "0", "_", "w", "g", "h", "t", "4", "0", "0", "_", "G", "R", "A",
      "D", "0", "_", "o", "p", "s", "z", "2", "4">>

SfxShortHex ==
    <<"_", "2", "4", "d", "p", "_", "E", "3", "E", "3", "E", "_", "F", "I",
      "L", "L", "0", "_", "w", "g", "h", "t", "4", "0", "0", "_", "G", "R",
      "A", "D", "0", "_", "o", "p", "s", "z", "2", "4">>

SfxTwoMinus ==
    <<"_", "2", "4", "d", "p", "_", "E", "3", "E", "3", "E", "3", "_", "F",
      "I", "L", "L", "0", "_", "w", "g", "h", "t", "4", "0", "0", "_", "G",
      "R", "A", "D", "-", "-", "1", "_", "o", "p", "s", "z", "2", "4">>

Suffixes == {<<>>, SfxA, SfxB, SfxBadHex, SfxNoDigits, SfxShortHex, SfxTwoMinus}

Extensions == {<<>>, DotSvg, DotPng, DotSvg \o <<NL>>, DotSvg \o <<NL, NL>>}

Inputs == {b \o x \o e : b \in Bases, x \in Suffixes, e \in Extensions}

FnInit ==
    /\ filename \in Inputs
    /\ result = None
    /\ pc = "call"
    /\ dir = <<>>
    /\ slint = <<>>
    /\ todo = {}
    /\ renamed = <<>>
    /\ calls = <<>>
    /\ startDir = <<>>
    /\ rerun = FALSE

CallGetCleanName ==
    /\ pc = "call"
    /\ result' = get_clean_name(filename)
    /\ pc' = "returned"
    /\ UNCHANGED <<dir, slint, todo, renamed, calls, startDir, rerun, filename>>

FnNext == CallGetCleanName

FnSpec == FnInit /\ [][FnNext]_vars

(***************************************************************************)
(* Vocabulary of the properties                                            *)
(***************************************************************************)
EndsWith(s, e) ==
    Len(s) >= Len(e) /\ SubSeq(s, Len(s) - Len(e) + 1, Len(s)) = e

StartsWith(s, b) == Len(s) >= Len(b) /\ SubSeq(s, 1, Len(b)) = b

\* s between a leading b and a trailing e.
Between(s, b, e) == SubSeq(s, Len(b) + 1, Len(s) - Len(e))

IsDigits(s) == Len(s) >= 1 /\ \A i \in 1..Len(s) : s[i] \in Digit

IsHex6(s) == Len(s) = 6 /\ \A i \in 1..6 : s[i] \in HexDigit

\* <digits> between the given prefix and the given ending.
Numbered(s, b, e) ==
    StartsWith(s, b) /\ EndsWith(s, e) /\ Len(s) >= Len(b) + Len(e)
    /\ IsDigits(Between(s, b, e))

RECURSIVE Split(_, _)
Split(s, sep) ==
    LET at == {i \in 1..Len(s) : s[i] = sep}
    IN IF at = {} THEN <<s>>
       ELSE LET i == CHOOSE x \in at : \A y \in at : x <= y
            IN <<SubSeq(s, 1, i - 1)>> \o Split(SubSeq(s, i + 1, Len(s)), sep)

\* t is _<digits>dp_<6 hex digits>_FILL<digits>_wght<digits>
\*      _GRAD<optional minus><digits>_opsz<digits>.svg
IsMaterialSuffix(t) ==
    LET f == Split(t, "_")
    IN /\ Len(f) = 7
       /\ f[1] = <<>>
       /\ Numbered(f[2], <<>>, <<"d", "p">>)
       /\ IsHex6(f[3])
       /\ Numbered(f[4], <<"F", "I", "L", "L">>, <<>>)
       /\ Numbered(f[5], <<"w", "g", "h", "t">>, <<>>)
       /\ \/ Numbered(f[6], <<"G", "R", "A", "D">>, <<>>)
          \/ Numbered(f[6], <<"G", "R", "A", "D", "-">>, <<>>)
       /\ Numbered(f[7], <<"o", "p", "s", "z">>, DotSvg)

\* The lengths of a non-empty base name that a Material Design suffix follows.
BaseLengths(s) ==
    {k \in 1..Len(s) : IsMaterialSuffix(SubSeq(s, k + 1, Len(s)))}

IsMaterialName(s) == BaseLengths(s) # {}

BaseName(s) == SubSeq(s, 1, CHOOSE k \in BaseLengths(s) : TRUE)

\* A regular file with the .svg suffix, and its base name.
IsSvgFile(d, n) ==
    n \in DOMAIN d /\ d[n].kind = "file" /\ Len(n) > 4 /\ EndsWith(n, DotSvg)

SvgBaseNames(d) ==
    {SubSeq(n, 1, Len(n) - 4) : n \in {m \in DOMAIN d : IsSvgFile(d, m)}}

\* The text holds the declaration line of the given name.
Declares(text, name) ==
    LET line == <<NL>> \o DeclLine(name) \o <<NL>>
    IN \E i \in 1..(Len(text) - Len(line) + 1) :
          SubSeq(text, i, i + Len(line) - 1) = line

\* An entry the rename pass has to rename: a regular .svg file whose name
\* matches the pattern.
Matching(d, n) ==
    is_file(d, n) /\ suffix(n) = DotSvg /\ get_clean_name(n) # None

InPass == pc \in {"renaming", "generate"}

(***************************************************************************)
(* Properties                                                              *)
(***************************************************************************)
\* C1: renaming is idempotent: a run of rename_icons that follows a complete
\* run renames no file, so its list stays empty and the directory stays as
\* the run found it.
RenameIdempotent ==
    rerun => /\ renamed = <<>>
             /\ InPass => dir = startDir

\* C2: the outcome of main depends only on the set of names it starts from:
\* whatever order the directory enumerates its entries in, the names left in
\* the directory and the text of icons.slint are those of this run.
OutcomeIndependentOfOrder ==
    pc = "done" =>
        \A order \in Orders(DOMAIN startDir) :
            main(startDir, order) = [names |-> DOMAIN dir, slint |-> slint]

\* C3: an iteration on a matching file whose simplified name is already an
\* entry of the directory skips the file: the directory and the returned
\* list stay as they are and the file is not visited again.
SkipStep(file) ==
    (/\ Matching(dir, file)
     /\ get_clean_name(file) \in DOMAIN dir)
    => /\ dir' = dir
       /\ renamed' = renamed
       /\ todo' = todo \ {file}

CollisionSkips ==
    [][(pc = "renaming" /\ todo' # todo)
          => \A file \in todo \ todo' : SkipStep(file)]_vars

\* C4: no entry is lost or overwritten during the pass: the directory holds
\* as many entries as at the start, and every initial entry is there under
\* exactly one name, its original or its simplified one.
NoFileLost ==
    InPass =>
        /\ Cardinality(DOMAIN dir) = Cardinality(DOMAIN startDir)
        /\ \A n0 \in DOMAIN startDir :
              LET at == {n \in DOMAIN dir : dir[n].id = startDir[n0].id}
              IN /\ Cardinality(at) = 1
                 /\ at \subseteq {n0, get_clean_name(n0)}

\* C5: icons.slint holds the header lines, then one declaration line per
\* regular .svg file and none for any other entry, in ascending order of
\* base name, then the closing brace.
Rank(S, x) == Cardinality({y \in S : StrLess(y, x)}) + 1

ExpectedDecls(S) ==
    [i \in 1..Cardinality(S) |-> DeclLine(CHOOSE x \in S : Rank(S, x) = i)]

ListingContent ==
    pc = "done" =>
        slint = join(<<NL>>, HeaderLines \o ExpectedDecls(SvgBaseNames(dir))
                             \o FooterLines)

ListingContentWitness ==
    /\ pc = "done"
    /\ Cardinality(SvgBaseNames(dir)) >= 2
    /\ \E n \in DOMAIN dir : n # ICONS_SLINT /\ ~IsSvgFile(dir, n)
    /\ ICONS_SLINT \in DOMAIN startDir

\* C6: main calls the rename pass and then the listing write, once each;
\* the listing declares exactly the base names of the .svg files present at
\* the end, every renamed file under its simplified name and none under the
\* name it was renamed from.
RenamedFrom ==
    {n0 \in DOMAIN startDir :
        \E n \in DOMAIN dir \ {n0} : dir[n].id = startDir[n0].id}

ListingReflectsRenaming ==
    pc = "done" =>
        /\ calls = <<"rename_icons", "generate_icons_slint">>
        /\ \A n \in DOMAIN dir \cup DOMAIN startDir :
              Declares(slint, stem(n)) <=> stem(n) \in SvgBaseNames(dir)
        /\ \A i \in 1..Len(renamed) : Declares(slint, stem(renamed[i]))
        /\ \A n0 \in RenamedFrom : ~Declares(slint, stem(n0))

\* C7: get_clean_name returns the base name followed by .svg exactly for the
\* names made of a non-empty base name and a Material Design suffix, None
\* for every other name, and a result shorter than its argument.
CleanNameOfMaterialNames ==
    pc = "returned" =>
        /\ IF IsMaterialName(filename)
           THEN result = BaseName(filename) \o DotSvg
           ELSE result = None
        /\ result # None => Len(result) < Len(filename)

\* C8: the name get_clean_name returns is clean: get_clean_name maps it to
\* None.
CleanNameIsClean ==
    (pc = "returned" /\ result # None) => get_clean_name(result) = None

\* C9: the rename pass leaves every entry that is not a matching regular
\* .svg file as it is, and the listing write leaves every entry other than
\* icons.slint as it is.
Untouched(n) == n \in DOMAIN dir /\ n \in DOMAIN dir' /\ dir'[n] = dir[n]

FrameStep ==
    /\ pc = "renaming" =>
          \A n \in DOMAIN dir : ~Matching(dir, n) => Untouched(n)
    /\ pc = "generate" =>
          \A n \in (DOMAIN dir \cup DOMAIN dir') \ {ICONS_SLINT} : Untouched(n)

OnlyMatchingFilesChange == [][FrameStep]_vars

====
